---- MODULE Spec2Model ----
(***************************************************************************)
(* Product catalog service: the five /products routes of                   *)
(* service/routes.py over the Product table.                               *)
(*                                                                         *)
(* The table is a set of rows; every handler is one action that reads the  *)
(* request, changes the table and leaves its response in resp.  JSON       *)
(* values of a request body are written as their JSON text, so that a      *)
(* string, a number and a boolean stay different values.                   *)
(***************************************************************************)
EXTENDS Integers, Sequences, FiniteSets, TLC

VARIABLES
    table,      \* the rows of the product table
    nextId,     \* the next value of the id sequence
    req,        \* the last request
    resp,       \* its response
    before,     \* the table and the sequence as that request found them
    flight      \* the PUT and DELETE requests between their find and their
                \* update or delete (concurrent workers)

vars == <<table, nextId, req, resp, before, flight>>

\* ---------------------------------------------------------------- bounds
\* the largest id the sequence hands out
MaxId == 2

\* the most requests that are in flight at a time
MaxFlight == 2

\* ------------------------------------------------------------- constants
HTTP_200_OK == 200
HTTP_201_CREATED == 201
HTTP_204_NO_CONTENT == 204
HTTP_400_BAD_REQUEST == 400
HTTP_404_NOT_FOUND == 404
HTTP_415_UNSUPPORTED_MEDIA_TYPE == 415
HTTP_500_INTERNAL_SERVER_ERROR == 500

\* a key that is not in a mapping, a header or a query parameter that is
\* not in the request (request.args.get gives None)
Absent == "<absent>"

JSON == "application/json"

ContentTypes == {Absent, JSON, "plain/text"}

\* ------------------------------------------------------- Category (enum)
CategoryMembers == {"UNKNOWN", "CLOTHS", "FOOD"}

\* getattr(Category, name): the member, or AttributeError
HasCategory(name) == name \in CategoryMembers

\* ------------------------------------------------------------ str methods
\* str.lower() on the query values of the model
Lower(s) ==
    CASE s = "TRUE" -> "true"
      [] s = "Yes" -> "yes"
      [] s = "No" -> "no"
      [] OTHER -> s

\* str.upper() on the query values of the model
Upper(s) ==
    CASE s = "cloths" -> "CLOTHS"
      [] s = "food" -> "FOOD"
      [] s = "Bogus" -> "BOGUS"
      [] OTHER -> s

\* ------------------------------------------------------------ Decimal
\* Decimal(x) for the JSON texts of the model: coefficient and exponent
\* (12.50 is 1250 * 10^-2, 12.5 is 125 * 10^-1)
Decimal(j) ==
    CASE j = "\"12.50\"" -> [coef |-> 1250, exp |-> 0 - 2]
      [] j = "12.5" -> [coef |-> 125, exp |-> 0 - 1]
      [] j = "\"12.5\"" -> [coef |-> 125, exp |-> 0 - 1]
      [] j = "\"7\"" -> [coef |-> 7, exp |-> 0]
      [] OTHER -> [coef |-> 0, exp |-> 0]

\* str(Decimal)
DecimalStr(d) ==
    CASE d = [coef |-> 1250, exp |-> 0 - 2] -> "12.50"
      [] d = [coef |-> 125, exp |-> 0 - 1] -> "12.5"
      [] d = [coef |-> 7, exp |-> 0] -> "7"
      [] OTHER -> "0"

\* ------------------------------------------------------- path segments
\* the <product_id> segment of the URL is a string
Segments == {ToString(i) : i \in 1..MaxId} \cup {"abc"}

\* the integer a segment denotes for the id column, 0 when it denotes none
SegToId(seg) ==
    IF \E i \in 1..MaxId : ToString(i) = seg
    THEN CHOOSE i \in 1..MaxId : ToString(i) = seg
    ELSE 0

\* ------------------------------------------------------- request bodies
\* A JSON body: kind "map" (an object) or "list"; a key holds the JSON text
\* of its value, or Absent; id holds the integer, 0 when the key is absent.
Body(id, name, description, price, available, category) ==
    [kind |-> "map", id |-> id, name |-> name, description |-> description,
     price |-> price, available |-> available, category |-> category]

Fedora == Body(0, "Hat", "A red hat", "\"12.50\"", "true", "CLOTHS")

\* bodies that deserialize accepts; the price is a string in two of them
\* and a number in the third
ValidCore ==
    { Fedora,
      Body(0, "Hat", "A red hat", "\"12.50\"", "false", "FOOD"),
      Body(0, "Cap", "A red hat", "12.5", "true", "FOOD") }

\* a valid body that also carries an id key
WithId == { [Fedora EXCEPT !.id = i] : i \in {1} }

ValidBodies == ValidCore \cup WithId

InvalidBodies ==
    { [Fedora EXCEPT !.kind = "list"],
      [Fedora EXCEPT !.name = Absent],
      [Fedora EXCEPT !.price = Absent],
      [Fedora EXCEPT !.available = Absent],
      [Fedora EXCEPT !.category = Absent],
      [Fedora EXCEPT !.available = "\"something else\""],
      [Fedora EXCEPT !.category = "cloths"] }

Bodies == ValidBodies \cup InvalidBodies

\* ------------------------------------------------------------- Product
\* a Product() before deserialize: every column None.  oid is the identity
\* of the row in the table (not a column): it is set when the row is
\* inserted and tells whether a row of one state is the row of another.
NoneValue == "<None>"

NewProduct ==
    [oid |-> 0, id |-> 0, name |-> NoneValue, description |-> NoneValue,
     price |-> Decimal(Absent), available |-> FALSE, category |-> NoneValue]

\* Product.deserialize(data) raises DataValidationError
DeserializeFails(data) ==
    \/ data.kind # "map"
    \/ data.name = Absent
    \/ data.price = Absent
    \/ data.available = Absent
    \/ data.category = Absent
    \/ data.available \notin {"true", "false"}
    \/ ~HasCategory(data.category)

\* Product.deserialize(data) on product: the fields of the mapping, the id
\* of the product left as it is
Deserialize(product, data) ==
    [product EXCEPT
       !.name = data.name,
       !.description = IF data.description \in {Absent, "null"}
                       THEN NoneValue
                       ELSE data.description,
       !.price = Decimal(data.price),
       !.available = (data.available = "true"),
       !.category = data.category]

\* Product.deserialize(data) that raises, on product: the fields are
\* assigned one at a time (name, description, price, available, category),
\* so the product keeps what was assigned before the error
DeserializePartial(product, data) ==
    IF data.kind # "map" \/ data.name = Absent THEN product
    ELSE LET named == [product EXCEPT
                         !.name = data.name,
                         !.description = IF data.description
                                             \in {Absent, "null"}
                                         THEN NoneValue
                                         ELSE data.description]
         IN IF data.price = Absent THEN named
            ELSE LET priced == [named EXCEPT !.price = Decimal(data.price)]
                 IN IF data.available \notin {"true", "false"} THEN priced
                    ELSE [priced EXCEPT
                            !.available = (data.available = "true")]

\* serialize with the value of the category member in place of its name
Serialize_category_value(product) ==
    [id |-> product.id, name |-> product.name,
     description |-> product.description,
     price |-> DecimalStr(product.price),
     available |-> product.available,
     category |-> CASE product.category = "UNKNOWN" -> "0"
                    [] product.category = "CLOTHS" -> "1"
                    [] OTHER -> "2"]

\* Product.serialize(): price as a string, category as the member's name
Serialize(product) ==
    [id |-> product.id, name |-> product.name,
     description |-> product.description,
     price |-> DecimalStr(product.price),
     available |-> product.available,
     category |-> product.category]

\* ------------------------------------------------------- store queries
\* Product.find(product_id): the rows with that id (none: not found)
Find(t, seg) == { r \in t : r.id = SegToId(seg) }

Found(t, seg) == Find(t, seg) # {}

FoundRow(t, seg) == CHOOSE r \in Find(t, seg) : TRUE

\* rows in the order of the store (insertion order)
RECURSIVE RowSeq(_)
RowSeq(S) ==
    IF S = {} THEN <<>>
    ELSE LET r == CHOOSE x \in S : \A y \in S : x.oid <= y.oid
         IN <<r>> \o RowSeq(S \ {r})

\* Product.all(): a list
All(t) == [kind |-> "list", rows |-> t]

\* Product.find_by_availability / find_by_name / find_by_category: a query
FindByAvailability(t, available) ==
    [kind |-> "query", rows |-> { r \in t : r.available = available }]

FindByName(t, name) ==
    [kind |-> "query", rows |-> { r \in t : r.name = name }]

FindByCategory(t, category) ==
    [kind |-> "query", rows |-> { r \in t : r.category = category }]

\* bool(found_products): a list is true when it has an element; a query
\* object has neither __bool__ nor __len__ and is always true
Truthy(found) == IF found.kind = "list" THEN found.rows # {} ELSE TRUE

\* ------------------------------------------------------------ responses
SerializeAll(rowseq) == [i \in 1..Len(rowseq) |-> Serialize(rowseq[i])]

\* shape "empty" (no body), "object" (one record), "array", "error"
Response(status, shape, body, location) ==
    [status |-> status, shape |-> shape, body |-> body, location |-> location]

Error(status) == Response(status, "error", <<>>, Absent)

\* ------------------------------------------------------------- requests
NoBody == [Fedora EXCEPT !.kind = "none"]

Request(method, seg, ctype, body, available, name, category) ==
    [method |-> method, seg |-> seg, ctype |-> ctype, body |-> body,
     available |-> available, name |-> name, category |-> category]

\* query values of GET /products
AvailableValues == {Absent, "", "true", "TRUE", "yes", "1", "no", "false"}
NameValues == {Absent, "", "Hat", "Sock"}
CategoryValues == {Absent, "cloths", "FOOD", "Bogus"}

\* a query parameter the route does not read (non_valid=something)
OtherValues == {Absent, "something"}

\* what a handler leaves behind: the table, the id sequence, the response
Outcome(t, n, r) == [table |-> t, nextId |-> n, resp |-> r]

\* --------------------------------------------------- check_content_type
\* check_content_type that looks at the header only when there is one
WrongContentType_missing_ok(ctype) ==
    IF ctype = Absent THEN FALSE
    ELSE IF ctype = JSON THEN FALSE
    ELSE TRUE

\* check_content_type("application/json") aborts with 415
WrongContentType(ctype) ==
    IF ctype = Absent THEN TRUE
    ELSE IF ctype = JSON THEN FALSE
    ELSE TRUE

\* ------------------------------------------------------ POST /products
\* product.create(): the id is taken from the sequence, whatever it was
Create(t, n, product) == t \cup {[product EXCEPT !.id = n, !.oid = n]}

\* create_products with the Location of line 95 (location_url = "/")
create_products_location_root(t, n, ctype, data) ==
    IF WrongContentType(ctype)
    THEN Outcome(t, n, Error(HTTP_415_UNSUPPORTED_MEDIA_TYPE))
    ELSE IF DeserializeFails(data)
    THEN Outcome(t, n, Error(HTTP_400_BAD_REQUEST))
    ELSE LET product == [Deserialize(NewProduct, data) EXCEPT !.id = n,
                                                             !.oid = n]
         IN Outcome(Create(t, n, Deserialize(NewProduct, data)), n + 1,
                    Response(HTTP_201_CREATED, "object",
                             <<Serialize(product)>>, "/"))

\* create_products with product.create() before product.deserialize(data)
create_products_create_first(t, n, ctype, data) ==
    IF WrongContentType(ctype)
    THEN Outcome(t, n, Error(HTTP_415_UNSUPPORTED_MEDIA_TYPE))
    ELSE IF DeserializeFails(data)
    THEN Outcome(Create(t, n, NewProduct), n + 1,
                 Error(HTTP_400_BAD_REQUEST))
    ELSE LET product == [Deserialize(NewProduct, data) EXCEPT !.id = n,
                                                             !.oid = n]
         IN Outcome(Create(t, n, Deserialize(NewProduct, data)), n + 1,
                    Response(HTTP_201_CREATED, "object",
                             <<Serialize(product)>>, ToString(product.id)))

create_products(t, n, ctype, data) ==
    IF WrongContentType(ctype)
    THEN Outcome(t, n, Error(HTTP_415_UNSUPPORTED_MEDIA_TYPE))
    ELSE IF DeserializeFails(data)
    THEN Outcome(t, n, Error(HTTP_400_BAD_REQUEST))
    ELSE LET product == [Deserialize(NewProduct, data) EXCEPT !.id = n,
                                                             !.oid = n]
         IN Outcome(Create(t, n, Deserialize(NewProduct, data)), n + 1,
                    Response(HTTP_201_CREATED, "object",
                             <<Serialize(product)>>, ToString(product.id)))

\* ------------------------------------------------------- GET /products
\* available.lower() in ["true", "yes", 1]: the list holds two strings and
\* the integer 1, and a string never equals an integer
TrueValues == {<<"str", "true">>, <<"str", "yes">>, <<"int", "1">>}

\* available_value = bool(available): every non-empty string is true
AvailableValue_bool(available) == available # ""

AvailableValue(available) == <<"str", Lower(available)>> \in TrueValues

\* a query value is used when it is neither None nor ""
Given(value) == value # Absent /\ value # ""

ListResult(found) ==
    IF ~Truthy(found)
    THEN Response(HTTP_204_NO_CONTENT, "empty", <<>>, Absent)
    ELSE Response(HTTP_200_OK, "array", SerializeAll(RowSeq(found.rows)),
                  Absent)

\* list_products with the category branch before the name branch
list_products_category_first(t, available, name, category) ==
    IF Given(available)
    THEN ListResult(FindByAvailability(t, AvailableValue(available)))
    ELSE IF Given(category)
    THEN IF HasCategory(Upper(category))
         THEN ListResult(FindByCategory(t, Upper(category)))
         ELSE Error(HTTP_500_INTERNAL_SERVER_ERROR)
    ELSE IF Given(name)
    THEN ListResult(FindByName(t, name))
    ELSE ListResult(All(t))

\* list_products that lists every product, whatever the filter
list_products_all(t, available, name, category) == ListResult(All(t))

\* list_products without its else branch: found_products stays []
list_products_default_empty(t, available, name, category) ==
    IF Given(available)
    THEN ListResult(FindByAvailability(t, AvailableValue(available)))
    ELSE IF Given(name)
    THEN ListResult(FindByName(t, name))
    ELSE IF Given(category)
    THEN IF HasCategory(Upper(category))
         THEN ListResult(FindByCategory(t, Upper(category)))
         ELSE Error(HTTP_500_INTERNAL_SERVER_ERROR)
    ELSE ListResult([kind |-> "list", rows |-> {}])

list_products(t, available, name, category) ==
    IF Given(available)
    THEN ListResult(FindByAvailability(t, AvailableValue(available)))
    ELSE IF Given(name)
    THEN ListResult(FindByName(t, name))
    ELSE IF Given(category)
    THEN IF HasCategory(Upper(category))
         THEN ListResult(FindByCategory(t, Upper(category)))
         ELSE Error(HTTP_500_INTERNAL_SERVER_ERROR)
    ELSE ListResult(All(t))

\* -------------------------------------------------- GET /products/<id>
\* get_products without the test of line 158: serialize fails on None
get_products_no_abort(t, product_id) ==
    IF ~Found(t, product_id)
    THEN Error(HTTP_500_INTERNAL_SERVER_ERROR)
    ELSE Response(HTTP_200_OK, "object",
                  <<Serialize(FoundRow(t, product_id))>>, Absent)

get_products(t, product_id) ==
    IF ~Found(t, product_id)
    THEN Error(HTTP_404_NOT_FOUND)
    ELSE Response(HTTP_200_OK, "object",
                  <<Serialize(FoundRow(t, product_id))>>, Absent)

\* -------------------------------------------------- PUT /products/<id>
\* product.update(): the row that has the identity of the loaded product
\* takes the values of the product (UPDATE ... WHERE id = identity)
Update(t, old, product) ==
    { IF r.id = old.id THEN [product EXCEPT !.oid = r.oid] ELSE r : r \in t }

\* lines 184-186 with the id taken from the mapping (product.id = data["id"])
update_product_save_body_id(t, n, old, product_id, data) ==
    IF DeserializeFails(data)
    THEN Outcome(t, n, Error(HTTP_400_BAD_REQUEST))
    ELSE LET product == [Deserialize(old, data)
                           EXCEPT !.id = IF data.id = 0
                                         THEN SegToId(product_id)
                                         ELSE data.id]
         IN IF \E r \in t : r.id = old.id
            THEN Outcome(Update(t, old, product), n,
                         Response(HTTP_200_OK, "object",
                                  <<Serialize(product)>>, Absent))
            ELSE Outcome(t, n, Error(HTTP_500_INTERNAL_SERVER_ERROR))

\* lines 184-187 where update() inserts the product when no row of its
\* identity is left (a merge in place of an UPDATE)
update_product_save_reinsert(t, n, old, product_id, data) ==
    IF DeserializeFails(data)
    THEN Outcome(t, n, Error(HTTP_400_BAD_REQUEST))
    ELSE LET product == [Deserialize(old, data)
                           EXCEPT !.id = SegToId(product_id)]
         IN IF \E r \in t : r.id = old.id
            THEN Outcome(Update(t, old, product), n,
                         Response(HTTP_200_OK, "object",
                                  <<Serialize(product)>>, Absent))
            ELSE Outcome(t \cup {product}, n,
                         Response(HTTP_200_OK, "object",
                                  <<Serialize(product)>>, Absent))

\* lines 184-187 where the values that a failing deserialize has assigned
\* to the loaded product reach the table (the session of the request is
\* flushed or committed after the error)
update_product_save_partial(t, n, old, product_id, data) ==
    IF DeserializeFails(data)
    THEN Outcome(Update(t, old, DeserializePartial(old, data)), n,
                 Error(HTTP_400_BAD_REQUEST))
    ELSE LET product == [Deserialize(old, data)
                           EXCEPT !.id = SegToId(product_id)]
         IN IF \E r \in t : r.id = old.id
            THEN Outcome(Update(t, old, product), n,
                         Response(HTTP_200_OK, "object",
                                  <<Serialize(product)>>, Absent))
            ELSE Outcome(t, n, Error(HTTP_500_INTERNAL_SERVER_ERROR))

\* lines 184-187, on the product that find has loaded: deserialize, set the
\* id, update (no row of that identity is left: the update fails)
update_product_save(t, n, old, product_id, data) ==
    IF DeserializeFails(data)
    THEN Outcome(t, n, Error(HTTP_400_BAD_REQUEST))
    ELSE LET product == [Deserialize(old, data)
                           EXCEPT !.id = SegToId(product_id)]
         IN IF \E r \in t : r.id = old.id
            THEN Outcome(Update(t, old, product), n,
                         Response(HTTP_200_OK, "object",
                                  <<Serialize(product)>>, Absent))
            ELSE Outcome(t, n, Error(HTTP_500_INTERNAL_SERVER_ERROR))

\* update_product without its call of product.update()
update_product_not_saved(t, n, product_id, ctype, data) ==
    IF WrongContentType(ctype)
    THEN Outcome(t, n, Error(HTTP_415_UNSUPPORTED_MEDIA_TYPE))
    ELSE IF ~Found(t, product_id)
    THEN Outcome(t, n, Error(HTTP_404_NOT_FOUND))
    ELSE IF DeserializeFails(data)
    THEN Outcome(t, n, Error(HTTP_400_BAD_REQUEST))
    ELSE LET old == FoundRow(t, product_id)
             product == [Deserialize(old, data)
                           EXCEPT !.id = SegToId(product_id)]
         IN Outcome(t, n,
                    Response(HTTP_200_OK, "object", <<Serialize(product)>>,
                             Absent))

\* update_product that creates the product when find gives none (the
\* "implement create" of line 183)
update_product_upsert(t, n, product_id, ctype, data) ==
    IF WrongContentType(ctype)
    THEN Outcome(t, n, Error(HTTP_415_UNSUPPORTED_MEDIA_TYPE))
    ELSE IF ~Found(t, product_id)
    THEN IF DeserializeFails(data)
         THEN Outcome(t, n, Error(HTTP_400_BAD_REQUEST))
         ELSE Outcome(Create(t, n, Deserialize(NewProduct, data)), n + 1,
                      Response(HTTP_200_OK, "object",
                               <<Serialize([Deserialize(NewProduct, data)
                                              EXCEPT !.id = n])>>, Absent))
    ELSE update_product_save(t, n, FoundRow(t, product_id), product_id, data)

\* update_product that looks the product up before it checks the content
\* type
update_product_find_first(t, n, product_id, ctype, data) ==
    IF ~Found(t, product_id)
    THEN Outcome(t, n, Error(HTTP_404_NOT_FOUND))
    ELSE IF WrongContentType(ctype)
    THEN Outcome(t, n, Error(HTTP_415_UNSUPPORTED_MEDIA_TYPE))
    ELSE update_product_save(t, n, FoundRow(t, product_id), product_id, data)

update_product(t, n, product_id, ctype, data) ==
    IF WrongContentType(ctype)
    THEN Outcome(t, n, Error(HTTP_415_UNSUPPORTED_MEDIA_TYPE))
    ELSE IF ~Found(t, product_id)
    THEN Outcome(t, n, Error(HTTP_404_NOT_FOUND))
    ELSE update_product_save(t, n, FoundRow(t, product_id), product_id, data)

\* ----------------------------------------------- DELETE /products/<id>
\* product.delete(): the row that has the id of the loaded product goes
Delete(t, product) == { r \in t : r.id # product.id }

\* delete_product without its call of product.delete()
delete_product_not_deleted(t, n, product_id) ==
    Outcome(t, n, Response(HTTP_204_NO_CONTENT, "empty", <<>>, Absent))

\* delete_product that aborts with 404 when the product is not found
delete_product_abort(t, n, product_id) ==
    IF Found(t, product_id)
    THEN Outcome(Delete(t, FoundRow(t, product_id)), n,
                 Response(HTTP_204_NO_CONTENT, "empty", <<>>, Absent))
    ELSE Outcome(t, n, Error(HTTP_404_NOT_FOUND))

\* lines 204-206, on the product that find has loaded
delete_product_delete(t, n, old) ==
    Outcome(Delete(t, old), n,
            Response(HTTP_204_NO_CONTENT, "empty", <<>>, Absent))

delete_product(t, n, product_id) ==
    IF Found(t, product_id)
    THEN delete_product_delete(t, n, FoundRow(t, product_id))
    ELSE Outcome(t, n, Response(HTTP_204_NO_CONTENT, "empty", <<>>, Absent))

\* =============================================================== actions
Init ==
    /\ table = {}
    /\ nextId = 1
    /\ req = Request("NONE", Absent, Absent, NoBody, Absent, Absent, Absent)
    /\ resp = Error(0)
    /\ before = [table |-> {}, nextId |-> 1]
    /\ flight = {}

Apply(outcome) ==
    /\ UNCHANGED flight
    /\ table' = outcome.table
    /\ nextId' = outcome.nextId
    /\ resp' = outcome.resp
    /\ before' = [table |-> table, nextId |-> nextId]

Post ==
    \E ctype \in ContentTypes, data \in Bodies :
       /\ \/ nextId <= MaxId
          \/ WrongContentType(ctype)
          \/ DeserializeFails(data)
       /\ req' = Request("POST", Absent, ctype, data, Absent, Absent, Absent)
       /\ Apply(create_products(table, nextId, ctype, data))

List ==
    \E available \in AvailableValues, name \in NameValues,
       category \in CategoryValues, other \in OtherValues :
       /\ req' = Request("LIST", Absent, Absent, NoBody,
                         available, name, category) @@ [non_valid |-> other]
       /\ Apply(Outcome(table, nextId,
                         list_products(table, available, name, category)))

Get ==
    \E product_id \in Segments :
       /\ req' = Request("GET", product_id, Absent, NoBody,
                         Absent, Absent, Absent)
       /\ Apply(Outcome(table, nextId, get_products(table, product_id)))

Put ==
    \E product_id \in Segments, ctype \in ContentTypes, data \in Bodies :
       /\ req' = Request("PUT", product_id, ctype, data,
                         Absent, Absent, Absent)
       /\ Apply(update_product(table, nextId, product_id, ctype, data))

DeleteReq ==
    \E product_id \in Segments :
       /\ req' = Request("DELETE", product_id, Absent, NoBody,
                         Absent, Absent, Absent)
       /\ Apply(delete_product(table, nextId, product_id))

Next == Post \/ List \/ Get \/ Put \/ DeleteReq

Spec == Init /\ [][Next]_vars

\* ================================================== concurrent requests
\* Several workers serve requests at once.  POST touches the table once
\* (create); PUT and DELETE touch it twice, at find and at update or
\* delete, and other requests may come between the two.  This
\* specification follows the table; req and resp stay as they are.

\* the bodies of the concurrent requests
FlightBodies ==
    { Fedora,
      Body(0, "Cap", "A red hat", "12.5", "true", "FOOD"),
      [Fedora EXCEPT !.id = MaxId],
      [Fedora EXCEPT !.name = Absent] }

\* a request after its find: the loaded product and what is still to do
InFlight(method, product_id, data, product) ==
    [method |-> method, seg |-> product_id, data |-> data,
     product |-> product]

\* a step of a worker on the table
Touch(outcome) ==
    /\ table' = outcome.table
    /\ nextId' = outcome.nextId
    /\ before' = [table |-> table, nextId |-> nextId]
    /\ UNCHANGED <<req, resp>>

\* POST /products: one step
PostStep ==
    \E ctype \in ContentTypes, data \in FlightBodies :
       /\ \/ nextId <= MaxId
          \/ WrongContentType(ctype)
          \/ DeserializeFails(data)
       /\ Touch(create_products(table, nextId, ctype, data))
       /\ UNCHANGED flight

\* PUT /products/<id>, lines 176-182: the content type and find
PutFind ==
    \E product_id \in Segments, ctype \in ContentTypes,
       data \in FlightBodies :
       /\ Cardinality(flight) < MaxFlight
       /\ Touch(Outcome(table, nextId, resp))
       /\ flight' =
            IF WrongContentType(ctype) \/ ~Found(table, product_id)
            THEN flight
            ELSE flight \cup {InFlight("PUT", product_id, data,
                                       FoundRow(table, product_id))}

\* PUT /products/<id>, lines 184-187
PutSave ==
    \E f \in flight :
       /\ f.method = "PUT"
       /\ Touch(update_product_save(table, nextId, f.product, f.seg, f.data))
       /\ flight' = flight \ {f}

\* DELETE /products/<id>, lines 201-203: find
DeleteFind ==
    \E product_id \in Segments :
       /\ Cardinality(flight) < MaxFlight
       /\ Touch(Outcome(table, nextId, resp))
       /\ flight' =
            IF ~Found(table, product_id)
            THEN flight
            ELSE flight \cup {InFlight("DELETE", product_id, NoBody,
                                       FoundRow(table, product_id))}

\* DELETE /products/<id>, lines 204-206
DeleteDelete ==
    \E f \in flight :
       /\ f.method = "DELETE"
       /\ Touch(delete_product_delete(table, nextId, f.product))
       /\ flight' = flight \ {f}

NextConcurrent == PostStep \/ PutFind \/ PutSave \/ DeleteFind \/ DeleteDelete

SpecConcurrent == Init /\ [][NextConcurrent]_vars

\* ================================================== the Product model
\* The methods of Product that no route reaches with every input: the
\* round trip of serialize and deserialize, find_by_price, and update on a
\* product that was never saved.  The table starts with any rows of ids
\* 1..k that creates leave; req holds the call and resp what it gave.

\* a Python str as the JSON text of a string
Quote(s) == "\"" \o s \o "\""

\* the dict that serialize gives, as the mapping deserialize reads
AsMapping(record) ==
    Body(record.id, record.name,
         IF record.description = NoneValue THEN "null"
         ELSE record.description,
         Quote(record.price),
         IF record.available THEN "true" ELSE "false",
         record.category)

ModelPrices ==
    { [coef |-> 1250, exp |-> 0 - 2], [coef |-> 125, exp |-> 0 - 1],
      [coef |-> 7, exp |-> 0] }

\* products in memory, not saved (id None)
ModelProducts ==
    { [NewProduct EXCEPT !.name = n, !.description = d, !.price = p,
                         !.available = a, !.category = c]
      : n \in {"Hat", "Cap"}, d \in {"A red hat", NoneValue},
        p \in ModelPrices, a \in BOOLEAN, c \in CategoryMembers }

\* the row that create leaves for a Fedora of a price
PriceRow(i, price) ==
    [NewProduct EXCEPT !.oid = i, !.id = i, !.name = "Hat",
                       !.description = "A red hat", !.price = price,
                       !.available = TRUE, !.category = "CLOTHS"]

ModelTables ==
    UNION { { { PriceRow(i, f[i]) : i \in 1..k }
              : f \in [1..k -> ModelPrices] }
            : k \in 0..MaxId }

RECURSIVE Pow10(_)
Pow10(n) == IF n <= 0 THEN 1 ELSE 10 * Pow10(n - 1)

\* Decimal == Decimal: the values are equal, whatever the exponents
DecimalEq(a, b) ==
    LET m == IF a.exp < b.exp THEN a.exp ELSE b.exp
    IN a.coef * Pow10(a.exp - m) = b.coef * Pow10(b.exp - m)

\* find_by_price that compares the text of the prices
FindByPrice_text(t, price) ==
    [kind |-> "query",
     rows |-> { r \in t :
                  DecimalStr(r.price) = IF price.type = "str" THEN price.text
                                        ELSE DecimalStr(price.dec) }]

\* Product.find_by_price(price): a str is made a Decimal first
FindByPrice(t, price) ==
    LET price_value == IF price.type = "str"
                       THEN Decimal(Quote(price.text))
                       ELSE price.dec
    IN [kind |-> "query",
        rows |-> { r \in t : DecimalEq(r.price, price_value) }]

\* the argument of find_by_price for a value: the Decimal or its str
PriceArgument(d, form) ==
    IF form = "str" THEN [type |-> "str", text |-> DecimalStr(d)]
    ELSE [type |-> "Decimal", dec |-> d]

\* update() that saves like create() when the product has no id
ProductUpdate_insert(t, n, product) ==
    IF product.id = 0
    THEN [table |-> Create(t, n, product), nextId |-> n + 1,
          raised |-> "none"]
    ELSE IF \E r \in t : r.id = product.id
    THEN [table |-> Update(t, product, product), nextId |-> n,
          raised |-> "none"]
    ELSE [table |-> t, nextId |-> n, raised |-> "StaleDataError"]

\* Product.update(): a validation error when the id is None
ProductUpdate(t, n, product) ==
    IF product.id = 0
    THEN [table |-> t, nextId |-> n, raised |-> "DataValidationError"]
    ELSE IF \E r \in t : r.id = product.id
    THEN [table |-> Update(t, product, product), nextId |-> n,
          raised |-> "none"]
    ELSE [table |-> t, nextId |-> n, raised |-> "StaleDataError"]

InitModel ==
    /\ table \in ModelTables
    /\ nextId = Cardinality(table) + 1
    /\ req = [method |-> "NONE"]
    /\ resp = [raised |-> "none"]
    /\ before = [table |-> table, nextId |-> nextId]
    /\ flight = {}

Called(call, result) ==
    /\ req' = call
    /\ resp' = result
    /\ before' = [table |-> table, nextId |-> nextId]
    /\ UNCHANGED flight

\* Product().deserialize(x.serialize()) for a saved product x
RoundTrip ==
    \E p \in ModelProducts :
       LET x == [p EXCEPT !.id = MaxId, !.oid = MaxId]
           data == AsMapping(Serialize(x))
       IN /\ Called([method |-> "ROUNDTRIP", product |-> x],
                    [raised |-> IF DeserializeFails(data)
                                THEN "DataValidationError" ELSE "none",
                     product |-> IF DeserializeFails(data) THEN NewProduct
                                 ELSE Deserialize(NewProduct, data)])
          /\ UNCHANGED <<table, nextId>>

\* Product.find_by_price(d) and Product.find_by_price(str(d))
FindPrice ==
    \E d \in ModelPrices, form \in {"Decimal", "str"} :
       /\ Called([method |-> "FIND_BY_PRICE", value |-> d, form |-> form],
                 [raised |-> "none",
                  rows |-> FindByPrice(table, PriceArgument(d, form)).rows])
       /\ UNCHANGED <<table, nextId>>

\* product.update() on a product that was never saved, or on a stored
\* one with a new description
ModelUpdate ==
    \E x \in ModelProducts \cup
             { [r EXCEPT !.description = "new description string"]
               : r \in table } :
       LET saved == ProductUpdate(table, nextId, x)
       IN /\ Called([method |-> "UPDATE", product |-> x],
                    [raised |-> saved.raised])
          /\ table' = saved.table
          /\ nextId' = saved.nextId

NextModel == RoundTrip \/ FindPrice \/ ModelUpdate

SpecModel == InitModel /\ [][NextModel]_vars

\* ================================================================ claims
Ids(t) == { r.id : r \in t }

\* the fields of a serialized record other than its id
SameFields(a, b) ==
    /\ a.name = b.name
    /\ a.description = b.description
    /\ a.price = b.price
    /\ a.available = b.available
    /\ a.category = b.category

\* the serialized fields a mapping asks for
ShowsBody(record, data) ==
    /\ record.name = data.name
    /\ record.description = data.description
    /\ record.price = DecimalStr(Decimal(data.price))
    /\ record.available = (data.available = "true")
    /\ record.category = data.category

\* the number of records GET /products lists
ListedCount(t) == Len(list_products(t, Absent, Absent, Absent).body)

ValidPost ==
    req.method = "POST" /\ req.ctype = JSON /\ req.body \in ValidBodies

\* C1: a POST of a valid body answers 201 with the serialized record under
\* a newly assigned id and a Location, and a GET of that Location answers
\* 200 with a record equal to the created one in every field.
CreateThenRead ==
    ValidPost =>
       /\ resp.status = HTTP_201_CREATED
       /\ resp.shape = "object"
       /\ resp.location \in Segments
       /\ LET created == resp.body[1]
              read == get_products(table, resp.location)
          IN /\ ShowsBody(created, req.body)
             /\ created.id \notin Ids(before.table)
             /\ created.id = SegToId(resp.location)
             /\ read.status = HTTP_200_OK
             /\ read.shape = "object"
             /\ read.body[1].id = created.id
             /\ SameFields(read.body[1], created)

CreateThenReadWitness ==
    /\ ValidPost
    /\ before.table # {}
    /\ resp.status = HTTP_201_CREATED
    /\ get_products(table, resp.location).status = HTTP_200_OK

ValidPutOfStored ==
    /\ req.method = "PUT"
    /\ req.ctype = JSON
    /\ req.body \in ValidBodies
    /\ Found(before.table, req.seg)

\* C2: a PUT of a valid body on a stored id answers 200, changes no
\* record's id and not the number of records, and a GET of that id then
\* shows the values of the body.
UpdatePreservesIdentity ==
    ValidPutOfStored =>
       /\ resp.status = HTTP_200_OK
       /\ resp.body[1].id = SegToId(req.seg)
       /\ Cardinality(table) = Cardinality(before.table)
       /\ \A r \in before.table : \E u \in table : u.oid = r.oid /\ u.id = r.id
       /\ LET read == get_products(table, req.seg)
          IN /\ read.status = HTTP_200_OK
             /\ read.body[1].id = SegToId(req.seg)
             /\ ShowsBody(read.body[1], req.body)

UpdatePreservesIdentityWitness ==
    /\ ValidPutOfStored
    /\ Cardinality(before.table) = 2
    /\ table # before.table
    /\ resp.status = HTTP_200_OK

DeleteOfStored == req.method = "DELETE" /\ Found(before.table, req.seg)

\* C3: a DELETE of a stored id answers 204 with an empty body, a GET of
\* that id then answers 404, one record less is listed and every other
\* record is as it was.
DeleteRemovesExactlyOne ==
    DeleteOfStored =>
       /\ resp.status = HTTP_204_NO_CONTENT
       /\ resp.shape = "empty"
       /\ resp.body = <<>>
       /\ get_products(table, req.seg).status = HTTP_404_NOT_FOUND
       /\ ListedCount(table) = ListedCount(before.table) - 1
       /\ table \subseteq before.table
       /\ \A r \in before.table : r.id # SegToId(req.seg) => r \in table

DeleteRemovesExactlyOneWitness ==
    /\ DeleteOfStored
    /\ Cardinality(before.table) = 2
    /\ Cardinality(table) = 1

DeleteOfMissing == req.method = "DELETE" /\ ~Found(before.table, req.seg)

\* C4: a DELETE of an id that is not stored answers 204 and leaves the
\* table as it was, and a second DELETE of any id leaves what the first
\* left.
DeleteIdempotent ==
    /\ DeleteOfMissing =>
          /\ resp.status = HTTP_204_NO_CONTENT
          /\ table = before.table
          /\ nextId = before.nextId
    /\ req.method = "DELETE" =>
          LET again == delete_product(table, nextId, req.seg)
          IN /\ again.resp.status = HTTP_204_NO_CONTENT
             /\ again.table = table

\* a DELETE of an id that was assigned and deleted before, on a table that
\* still holds a record
DeleteIdempotentWitness ==
    /\ DeleteOfMissing
    /\ SegToId(req.seg) \in 1..(before.nextId - 1)
    /\ table # {}

\* ------------------------------------------------------- GET /products
\* the records of a response body
BodySet(r) == { r.body[i] : i \in 1..Len(r.body) }

SerializedSet(rows) == { Serialize(r) : r \in rows }

\* the stored records that match a request: those of its first given
\* filter, all of them when no filter is given
Matching(t, available, name, category) ==
    IF Given(available)
    THEN { r \in t : r.available = AvailableValue(available) }
    ELSE IF Given(name)
    THEN { r \in t : r.name = name }
    ELSE IF Given(category)
    THEN { r \in t : r.category = Upper(category) }
    ELSE t

\* the category filter decides, and its value names no member
UndefinedCategory ==
    /\ req.method = "LIST"
    /\ ~Given(req.available)
    /\ ~Given(req.name)
    /\ Given(req.category)
    /\ ~HasCategory(Upper(req.category))

\* C6: GET /products answers 204 with an empty body whenever no stored
\* record matches the request, filtered or not, and 200 with a non-empty
\* array otherwise.
ListNoMatchIs204 ==
    (req.method = "LIST" /\ ~UndefinedCategory) =>
       IF Matching(before.table, req.available, req.name, req.category) = {}
       THEN resp.status = HTTP_204_NO_CONTENT /\ resp.shape = "empty"
       ELSE /\ resp.status = HTTP_200_OK
            /\ resp.shape = "array"
            /\ Len(resp.body) > 0

\* C7: GET /products with a category value that names no Category member
\* answers 400 and leaves the table as it was.
UndefinedCategoryIs400 ==
    UndefinedCategory =>
       resp.status = HTTP_400_BAD_REQUEST /\ table = before.table

\* C8: GET /products?available=v with v one of "true", "yes" and "1"
\* returns exactly the stored records whose available flag is true.
AvailableTrueValues ==
    (req.method = "LIST" /\ req.available \in {"true", "yes", "1"}) =>
       BodySet(resp) = SerializedSet({ r \in before.table : r.available })

\* C9 as stated: every value of available other than "true", "yes" and
\* "1", the empty string included, filters by available = false.
AvailableOtherValuesFalse ==
    (/\ req.method = "LIST"
     /\ req.available # Absent
     /\ req.available \notin {"true", "yes", "1"}) =>
       BodySet(resp) = SerializedSet({ r \in before.table : ~r.available })

\* C9 as amended: every non-empty value of available that is not "true",
\* "yes" or "1" in any letter case filters by available = false: the
\* response holds exactly the stored records whose flag is false, whatever
\* name and category are.
AvailableOtherGivenValuesFalse ==
    (/\ req.method = "LIST"
     /\ Given(req.available)
     /\ Lower(req.available) \notin {"true", "yes", "1"}) =>
       /\ resp.shape # "error"
       /\ BodySet(resp) = SerializedSet({ r \in before.table : ~r.available })

AvailableOtherGivenValuesFalseWitness ==
    /\ req.method = "LIST"
    /\ req.available = "no"
    /\ req.name = "Hat"
    /\ \E r \in before.table : r.available
    /\ Len(resp.body) = 1

\* the number of the three filter parameters a request carries
Carried(r) ==
    Cardinality({ k \in {"available", "name", "category"} : r[k] # Absent })

\* the request with only its highest-priority carried parameter
HighestCarried(r) ==
    IF r.available # Absent
    THEN [r EXCEPT !.name = Absent, !.category = Absent]
    ELSE IF r.name # Absent THEN [r EXCEPT !.category = Absent]
    ELSE r

\* the request with only its highest-priority parameter of a non-empty
\* value
HighestGiven(r) ==
    IF Given(r.available)
    THEN [r EXCEPT !.name = Absent, !.category = Absent]
    ELSE IF Given(r.name)
    THEN [r EXCEPT !.available = Absent, !.category = Absent]
    ELSE [r EXCEPT !.available = Absent, !.name = Absent]

ListOf(t, r) == list_products(t, r.available, r.name, r.category)

\* two responses with the same body and status; a 200 with an empty array
\* and a 204 count as the same here (C6 is about telling them apart)
SameResult(a, b) ==
    /\ a.body = b.body
    /\ \/ a.status = b.status
       \/ {a.status, b.status} \subseteq {HTTP_200_OK, HTTP_204_NO_CONTENT}

\* C10 as stated: a request that carries more than one of available, name
\* and category gets the result of the request that carries only the one
\* of highest priority.
FilterPriority ==
    (req.method = "LIST" /\ Carried(req) > 1) =>
       SameResult(resp, ListOf(before.table, HighestCarried(req)))

\* C10 as amended: priority is among the parameters of a non-empty value;
\* a request that carries more than one parameter gets the response of the
\* request that carries only its highest-priority non-empty one, and a
\* parameter of lower priority or of an empty value has no effect.
FilterPriorityGiven ==
    (req.method = "LIST" /\ Carried(req) > 1) =>
       resp = ListOf(before.table, HighestGiven(req))

\* available is empty, name decides and the undefined category is ignored
FilterPriorityGivenWitness ==
    /\ req.method = "LIST"
    /\ req.available = ""
    /\ req.name = "Hat"
    /\ req.category = "Bogus"
    /\ resp.status = HTTP_200_OK
    /\ Len(resp.body) = 1
    /\ Cardinality(before.table) = 2

\* ---------------------------------------------------------------- ids
Oids(t) == { r.oid : r \in t }

\* C5: in every state that POST, PUT and DELETE requests reach, one after
\* the other or interleaved, no two stored records have the same id, a
\* record gets its id once, from the sequence, when it is created, and no
\* step changes the id of a stored record.
IdentityInvariant ==
    /\ \A r \in table : \A u \in table : r.id = u.id => r = u
    /\ \A r \in before.table : \A u \in table : u.oid = r.oid => u.id = r.id
    /\ \A u \in table :
          u.oid \notin Oids(before.table) =>
             /\ u.id = before.nextId
             /\ u.id \notin Ids(before.table)
             /\ nextId = before.nextId + 1
    /\ \A u \in table : u.id \in 1..(nextId - 1)

\* a PUT has just rewritten a record while a DELETE of the same record is
\* between its find and its delete
IdentityInvariantWitness ==
    /\ Cardinality(table) = 2
    /\ \E r \in before.table : \E u \in table :
          /\ u.oid = r.oid
          /\ u.id = r.id
          /\ u # r
          /\ \E f \in flight : f.method = "DELETE" /\ f.product.oid = r.oid

\* ------------------------------------------------- filters and the list
\* the request is decided by its available, name or category filter
Filtered ==
    /\ req.method = "LIST"
    /\ \/ Given(req.available)
       \/ Given(req.name)
       \/ Given(req.category)
    /\ ~UndefinedCategory

\* the stored records whose field equals the value of the deciding filter:
\* the flag the availability value stands for, the name, the category
\* member of that name
FieldEquals(r, q) ==
    IF Given(q.available) THEN r.available = AvailableValue(q.available)
    ELSE IF Given(q.name) THEN r.name = q.name
    ELSE \E c \in CategoryMembers : c = Upper(q.category) /\ r.category = c

\* C11: a filtered GET /products returns all and only the stored records
\* whose field equals the value, each once: with N records of category C
\* and M of other categories the category filter returns N records, all of
\* category C.
FilterCorrect ==
    Filtered =>
       /\ resp.shape # "error"
       /\ BodySet(resp) =
             SerializedSet({ r \in before.table : FieldEquals(r, req) })
       /\ Len(resp.body) =
             Cardinality({ r \in before.table : FieldEquals(r, req) })

\* the category filter decides; one record is of the category, one is not
FilterCorrectWitness ==
    /\ Filtered
    /\ ~Given(req.available)
    /\ ~Given(req.name)
    /\ req.category = "cloths"
    /\ Cardinality(before.table) = 2
    /\ Len(resp.body) = 1
    /\ resp.body[1].category = "CLOTHS"

\* the request carries none of available, name and category
Unfiltered ==
    /\ req.method = "LIST"
    /\ req.available = Absent
    /\ req.name = Absent
    /\ req.category = Absent

\* C12: on a store that is not empty, GET /products without available,
\* name and category answers 200 with one entry for every stored record,
\* with its id and its values, none missing and none twice; a parameter
\* the route does not know changes nothing.
ListComplete ==
    (Unfiltered /\ before.table # {}) =>
       /\ resp.status = HTTP_200_OK
       /\ resp.shape = "array"
       /\ Len(resp.body) = Cardinality(before.table)
       /\ BodySet(resp) = SerializedSet(before.table)
       /\ \A r \in before.table :
             \E i \in 1..Len(resp.body) :
                /\ resp.body[i].id = r.id
                /\ resp.body[i].name = r.name
                /\ resp.body[i].description = r.description
                /\ resp.body[i].price = DecimalStr(r.price)
                /\ resp.body[i].available = r.available
                /\ resp.body[i].category = r.category
       /\ table = before.table

\* the list after a create, an update and a delete, asked with a parameter
\* the route does not know
ListCompleteWitness ==
    /\ Unfiltered
    /\ req.non_valid = "something"
    /\ Cardinality(before.table) = 1
    /\ before.nextId = MaxId + 1
    /\ \E r \in before.table : r.name = "Cap" /\ r.id = 1
    /\ Len(resp.body) = 1

\* ------------------------------------------------------ POST /products
\* C13: a POST without a Content-Type, or with one that is not
\* application/json, answers 415 and creates no record, whatever its body.
PostWrongContentTypeIs415 ==
    (req.method = "POST" /\ req.ctype # JSON) =>
       /\ resp.status = HTTP_415_UNSUPPORTED_MEDIA_TYPE
       /\ table = before.table
       /\ nextId = before.nextId

PostWrongContentTypeIs415Witness ==
    /\ req.method = "POST"
    /\ req.ctype = Absent
    /\ req.body \in ValidBodies
    /\ before.table # {}
    /\ resp.status = HTTP_415_UNSUPPORTED_MEDIA_TYPE

\* C14: a POST of application/json with a body that is no mapping, lacks
\* name, price, available or category, has an available that is no boolean
\* or a category that names no member answers 400 and leaves the table
\* and the id sequence as they were.
PostInvalidBodyIs400 ==
    (/\ req.method = "POST"
     /\ req.ctype = JSON
     /\ \/ req.body.kind = "list"
        \/ \E k \in {"name", "price", "available", "category"} :
              req.body[k] = Absent
        \/ req.body.available \notin {"true", "false"}
        \/ req.body.category \notin CategoryMembers) =>
       /\ resp.status = HTTP_400_BAD_REQUEST
       /\ table = before.table
       /\ nextId = before.nextId

PostInvalidBodyIs400Witness ==
    /\ req.method = "POST"
    /\ req.ctype = JSON
    /\ req.body.category = "cloths"
    /\ before.table # {}
    /\ before.nextId <= MaxId
    /\ resp.status = HTTP_400_BAD_REQUEST

\* ------------------------------------------------- GET /products/<id>
\* the stored records that the segment identifies
Identified(t, seg) == { r \in t : ToString(r.id) = seg }

\* C15: GET /products/<id> answers 404 for every segment that identifies
\* no stored record (an id never assigned, a deleted id, a segment that is
\* no number), without a failure of the lookup, and 200 with the
\* serialized record for every stored id.
GetFoundOrNot ==
    req.method = "GET" =>
       /\ table = before.table
       /\ IF Identified(before.table, req.seg) = {}
          THEN resp.status = HTTP_404_NOT_FOUND
          ELSE /\ resp.status = HTTP_200_OK
               /\ resp.shape = "object"
               /\ \E r \in Identified(before.table, req.seg) :
                     resp.body = <<Serialize(r)>>

\* a segment that is no number, on a table that holds a record
GetFoundOrNotWitness ==
    /\ req.method = "GET"
    /\ req.seg = "abc"
    /\ before.table # {}
    /\ resp.status = HTTP_404_NOT_FOUND

\* ------------------------------------------------- PUT /products/<id>
\* C16: a PUT of application/json for an id that is not stored answers 404
\* and leaves the table as it was, whatever its body: no record is
\* inserted.
PutNeverCreates ==
    (/\ req.method = "PUT"
     /\ req.ctype = JSON
     /\ Identified(before.table, req.seg) = {}) =>
       /\ resp.status = HTTP_404_NOT_FOUND
       /\ table = before.table
       /\ nextId = before.nextId

\* a valid body for an id that is free
PutNeverCreatesWitness ==
    /\ req.method = "PUT"
    /\ req.ctype = JSON
    /\ req.body \in ValidBodies
    /\ req.seg = ToString(MaxId)
    /\ before.nextId <= MaxId
    /\ before.table # {}
    /\ resp.status = HTTP_404_NOT_FOUND

\* --------------------------------------------------- the id of a body
\* C17: the id of a body is never used: a POST with an id in its body gets
\* the id of the sequence and overwrites no record; a PUT /products/a with
\* the id b in its body updates record a only, leaves its id a and leaves
\* record b as it was.
BodyIdIgnored ==
    /\ (ValidPost /\ req.body.id # 0) =>
          /\ resp.status = HTTP_201_CREATED
          /\ resp.body[1].id = before.nextId
          /\ before.table \subseteq table
          /\ Cardinality(table) = Cardinality(before.table) + 1
    /\ (ValidPutOfStored /\ req.body.id # 0) =>
          /\ resp.status = HTTP_200_OK
          /\ resp.body[1].id = SegToId(req.seg)
          /\ Ids(table) = Ids(before.table)
          /\ \A r \in before.table : r.id # SegToId(req.seg) => r \in table
          /\ \E u \in table :
                /\ u.id = SegToId(req.seg)
                /\ ShowsBody(Serialize(u), req.body)

\* PUT /products/a with the id of another stored record in its body
BodyIdIgnoredWitness ==
    /\ ValidPutOfStored
    /\ req.body.id # 0
    /\ req.body.id # SegToId(req.seg)
    /\ req.body.id \in Ids(before.table)
    /\ table # before.table
    /\ resp.status = HTTP_200_OK

\* ------------------------------------------------------ Product model
\* C18: deserialize(serialize(x)) gives for every valid record x the name,
\* description, price (the same decimal, digit for digit), available and
\* category of x; the id is not carried over.
RoundTripExact ==
    req.method = "ROUNDTRIP" =>
       /\ resp.raised = "none"
       /\ resp.product.name = req.product.name
       /\ resp.product.description = req.product.description
       /\ resp.product.price = req.product.price
       /\ DecimalEq(resp.product.price, req.product.price)
       /\ resp.product.available = req.product.available
       /\ resp.product.category = req.product.category
       /\ resp.product.id = 0

\* a record with an id, no description and a price of two decimal places
RoundTripExactWitness ==
    /\ req.method = "ROUNDTRIP"
    /\ req.product.id # 0
    /\ req.product.description = NoneValue
    /\ req.product.price = [coef |-> 1250, exp |-> 0 - 2]
    /\ req.product.category = "FOOD"
    /\ resp.raised = "none"
    /\ resp.product.price = req.product.price

\* C19: update() on a record whose id is None raises a validation error
\* and leaves the table as it was: no row is inserted or changed.
UpdateUnsavedRaises ==
    (req.method = "UPDATE" /\ req.product.id = 0) =>
       /\ resp.raised = "DataValidationError"
       /\ table = before.table
       /\ nextId = before.nextId

UpdateUnsavedRaisesWitness ==
    /\ req.method = "UPDATE"
    /\ req.product.id = 0
    /\ before.table # {}
    /\ before.nextId <= MaxId
    /\ resp.raised = "DataValidationError"

\* C20: find_by_price gives, for the Decimal and for the str of the same
\* value, the same rows: the stored records whose price is that value.
PriceFormsAgree ==
    req.method = "FIND_BY_PRICE" =>
       /\ resp.rows = { r \in before.table : DecimalEq(r.price, req.value) }
       /\ \A form \in {"Decimal", "str"} :
             FindByPrice(table, PriceArgument(req.value, form)).rows
                = resp.rows

\* the str "12.5" finds the record stored with the price 12.50 and not the
\* one stored with 7
PriceFormsAgreeWitness ==
    /\ req.method = "FIND_BY_PRICE"
    /\ req.form = "str"
    /\ req.value = [coef |-> 125, exp |-> 0 - 1]
    /\ Cardinality(before.table) = 2
    /\ Cardinality(resp.rows) = 1
    /\ \E r \in resp.rows : r.price = [coef |-> 1250, exp |-> 0 - 2]

\* ------------------------------------------- PUT that fails, and order
InvalidPutOfStored ==
    /\ req.method = "PUT"
    /\ req.ctype = JSON
    /\ Found(before.table, req.seg)
    /\ DeserializeFails(req.body)

PutCheckOrder ==
    req.method = "PUT" =>
       /\ req.ctype # JSON =>
             /\ resp.status = HTTP_415_UNSUPPORTED_MEDIA_TYPE
             /\ table = before.table
             /\ nextId = before.nextId
       /\ (req.ctype = JSON /\ ~Found(before.table, req.seg)) =>
             /\ resp.status = HTTP_404_NOT_FOUND
             /\ table = before.table
             /\ nextId = before.nextId
       /\ (/\ req.ctype = JSON
           /\ Found(before.table, req.seg)
           /\ DeserializeFails(req.body)) =>
             /\ resp.status = HTTP_400_BAD_REQUEST
             /\ table = before.table
             /\ nextId = before.nextId

\* all three checks would fail: no Content-Type, an id that is not stored
\* and a body without a name
PutCheckOrderWitness ==
    /\ req.method = "PUT"
    /\ req.ctype = Absent
    /\ req.seg = ToString(MaxId)
    /\ before.table # {}
    /\ ~Found(before.table, req.seg)
    /\ req.body.name = Absent
    /\ resp.status = HTTP_415_UNSUPPORTED_MEDIA_TYPE

\* --------------------------------------------------- a deleted id
\* an id that was given to a record and is not in the table: its record
\* was deleted
DeletedIds == { i \in 1..(nextId - 1) : i \notin Ids(table) }

\* C23: a deleted id stays absent.  Whatever request step comes next, also
\* the save of a PUT that found the record before it was deleted, the id
\* is not in the table afterwards, no create is given it, and GET of it
\* answers 404.
DeletedStaysAbsent ==
    [][\A i \in DeletedIds :
          /\ i \notin Ids(table')
          /\ i < nextId'
          /\ get_products(table', ToString(i)).status = HTTP_404_NOT_FOUND
      ]_vars

\* a PUT has found record 1 and holds it, record 1 was deleted since, and
\* a create may still come
DeletedStaysAbsentWitness ==
    /\ 1 \in DeletedIds
    /\ nextId <= MaxId
    /\ \E f \in flight :
          /\ f.method = "PUT"
          /\ f.product.id = 1
          /\ ~DeserializeFails(f.data)

====
